---- MODULE Spec2Model ----
(***************************************************************************)
(* Model of the model-file download orchestrator of GalaxyAIOS            *)
(* (src/api/aistack/worker/model_file_manager.py): the scheduler          *)
(* ModelFileManager with its ProcessPoolExecutor and active-download      *)
(* table, and the worker execution ModelFileDownloadTask.run; and of the   *)
(* task queue of the image API                                             *)
(* (src/api/image-api/image_api/queue/task_queue.py).                      *)
(*                                                                         *)
(* Percentages are kept in hundredths of a percent (100.00% = 10000), the *)
(* resolution of round(x, 2).                                              *)
(***************************************************************************)
EXTENDS Integers, Sequences, FiniteSets, TLC

\* ------------------------------------------------------------------ bounds
NumIds == 2          \* work item ids 1..NumIds
MaxExecs == 2        \* submissions to the pool over one behaviour
MaxBytes == 1        \* bytes the driver of one execution writes
MaxResume == 2       \* bytes already on disk when a download is resumed
MaxSize == 3         \* largest declared size of an item
MaxProbe == 2        \* largest size a metadata probe returns
MaxN == 2            \* largest value of a progress bar's counter
MaxTime == 2         \* seconds the clock can advance
MaxBars == 2         \* progress bars the driver of one execution opens
CpuCount == 1        \* multiprocessing.cpu_count()
MaxFails == 2        \* failures of the change feed over one behaviour
MaxTasks == 3        \* tasks added to the task queue over one behaviour
MaxQueue == 2        \* TaskQueue(max_queue_size, max_history_size)
MaxThreads == 2      \* worker threads TaskQueue.start() spawns

\* ------------------------------------------------------- program constants
max_concurrent_downloads == 5
ThrottleSeconds == 2
FullPercent == 10000

\* ModelFileManager._worker_id; the items of another worker carry OtherWorker.
worker_id == 1
OtherWorker == worker_id + 1

Ids == 1..NumIds
Execs == 1..MaxExecs
Null == -1

Min(a, b) == IF a < b THEN a ELSE b

\* ProcessPoolExecutor(max_workers=min(max_concurrent_downloads, cpu_count()))
PoolSize == Min(max_concurrent_downloads, CpuCount)

\* The call queue of the executor holds one call more than the pool has
\* processes (max_workers + EXTRA_QUEUED_CALLS in concurrent.futures.process);
\* a future moved into it is marked RUNNING and can no longer be cancelled.
CallQueueSize == PoolSize + 1

VARIABLES
    item,      \* item[id]: the ModelFile snapshot the events of id carry
    active,    \* _active_downloads: id -> execution (its future and flag)
    nexec,     \* number of executions submitted so far
    task,      \* task[e]: the future and the worker process of execution e
    flag,      \* flag[e]: the cancel_flag (Manager().Event()) of execution e
    cc,        \* cc[e]: position of the _check_completion coroutine of e
    hd,        \* hd[e]: position of the _handle_deletion task that popped e
    disk,      \* disk[id]: bytes under local_dir and in the cache location
    serr,      \* executions for which the scheduler wrote state=ERROR
    now,       \* time.time()
    dupSeen,   \* a duplicate CREATED/UPDATED event was ignored
    ignored,   \* the last event the watcher handled without an ActiveTask:
               \* "foreign" (another worker's item), "echo" (a CREATED or
               \* UPDATED event of an item that is not DOWNLOADING) or
               \* "redelete" (a DELETED event for an id that has no entry
               \* since an earlier DELETED event popped it)
    watcher,   \* watch_model_files: where its loop stands, failures so far
    rec,       \* the record of one item in the store
    upd,       \* writer -> its _update_model_file call in progress
    queue,     \* TaskQueue._queue: ids of the tasks waiting, oldest first
    history,   \* TaskQueue._history, a deque(maxlen=max_history_size)
    tasks,     \* TaskQueue._tasks: task id -> its status and position
    current,   \* TaskQueue._current_task, 0 for None
    running,   \* TaskQueue._running
    thread,    \* worker thread -> where it stands in _worker_loop
    ret        \* what the last call of add_task, cancel_task or clear_queue
               \* returned or raised

\* The download orchestrator's variables, the record store's and the task
\* queue's.
dvars == <<item, active, nexec, task, flag, cc, hd, disk, serr, now, dupSeen,
           ignored>>
rvars == <<rec, upd>>
qvars == <<queue, history, tasks, current, running, thread, ret>>

\* What a step of the scheduler, the pool or a worker leaves alone.
other == <<watcher, rvars, qvars>>

vars == <<dvars, other>>

\* ----------------------------------------------------------------- helpers
\* A future is "pending" (submitted, cancellable), "queued" (marked RUNNING
\* in the call queue, no process runs it yet), "executing", "finished"
\* (returned), "raised" or "cancelled".
\* Executions whose future is in the given state.
InState(st) == {e \in Execs : task[e].fut = st}

\* Executions of item id that are queued in the pool or running.
Live(id) == {e \in Execs : task[e].id = id
                          /\ task[e].fut \in {"pending", "queued", "executing"}}

\* Execution e has an entry in _active_downloads.
Registered(e) == \E id \in DOMAIN active : active[id] = e

\* The position of the worker process of execution e inside run().
At(e, pc) == task[e].fut = "executing" /\ task[e].pc = pc

SetMin(S) == CHOOSE x \in S : \A y \in S : x <= y

\* round((a / b) * 100, 2) in hundredths of a percent (ties to even).
Round2(a, b) ==
    LET q == (a * FullPercent) \div b
        r == (a * FullPercent) % b
    IN  IF 2 * r < b THEN q
        ELSE IF 2 * r > b THEN q + 1
        ELSE IF q % 2 = 0 THEN q ELSE q + 1

\* Where the source driver of an item puts its bytes: the Ollama driver
\* works in cache_dir/ollama, the others in local_dir when it is given and
\* in their default cache location otherwise.
Target(id) == IF item[id].local_dir /\ ~item[id].ollama THEN "local" ELSE "cache"

\* The snapshot of a DELETED event lists resolved_paths when the record had
\* them before or a worker has reported READY with the downloaded paths.
Wrote(e, kind) == \E i \in 1..Len(task[e].log) : task[e].log[i].kind = kind
ReadyWritten(id) == \E e \in Execs : task[e].id = id /\ Wrote(e, "READY")
SnapshotResolved(id) == item[id].resolved \/ ReadyWritten(id)

\* ModelFileDownloadTask._get_existing_file_size: the bytes under local_dir
\* (the whole tree or the single target file) plus the size of every
\* resolved path that exists.
ExistingFileSize(id) ==
    (IF item[id].local_dir THEN disk[id].local ELSE 0)
    + (IF item[id].resolved THEN disk[id][Target(id)] ELSE 0)

\* ModelFileDownloadTask._update_model_file: one update the worker of e
\* issues to the record store, with the field it sets (v: the size, or the
\* percentage of a progress update).
Write(kind, v) == [kind |-> kind, v |-> v]

\* The download_progress updates of execution e, in order.
IsProgress(w) == w.kind \in {"initial", "callback"}
ProgressLog(e) == SelectSeq(task[e].log, IsProgress)

\* ModelFileDownloadTask._cleanup_downloaded_files
WorkerCleanup(e) ==
    LET id == task[e].id IN
    [disk EXCEPT ![id] =
        [local |-> IF item[id].local_dir THEN 0 ELSE @.local,
         cache |-> IF item[id].ollama /\ ~task[e].xfer THEN 0 ELSE @.cache]]

\* ModelFileManager._cleanup_orphaned_files
CleanupOrphanedFiles(d, id) ==
    [d EXCEPT ![id] =
        [local |-> IF item[id].local_dir THEN 0 ELSE @.local,
         cache |-> IF item[id].ollama THEN 0 ELSE @.cache]]

\* ModelFileManager._delete_model_file: delete_path on every resolved path.
DeleteModelFile(d, id) ==
    IF SnapshotResolved(id)
    THEN [d EXCEPT ![id][Target(id)] = 0]
    ELSE d

\* An execution that is not submitted yet. Of the worker: bars counts the
\* tqdm bars of the driver (the first one included), n is the counter of the
\* current bar, last is _last_download_update_time, wtime the time of the
\* latest download_progress update, exc the exception that ended the
\* download ("cancelled" is Exception("Download cancelled")), cleaned tells
\* that _cleanup_downloaded_files ran.
NoTask == [id |-> 0, fut |-> "none", pc |-> "idle", size |-> Null,
           initial |-> 0, present |-> 0, n |-> 0, last |-> 0, log |-> <<>>,
           wrote |-> 0, xfer |-> FALSE, inflight |-> FALSE,
           bars |-> 1, wtime |-> 0, exc |-> "none", cleaned |-> FALSE]

\* ------------------------------------------------------------------- Init
\* watch_model_files has called _prerun and subscribed to the change feed.
WatcherInit == watcher = [pc |-> "awatch", fails |-> 0]

\* The writers of the record store: the scheduler's and the worker's
\* _update_model_file.
Writers == {"scheduler", "worker"}

\* The record of a DOWNLOADING item whose size is not known yet.
NewRecord == [state |-> "DOWNLOADING", state_message |-> "",
              download_progress |-> 0, size |-> Null]

\* No call of _update_model_file in progress.
NoUpdate == [pc |-> "idle", snap |-> NewRecord, call |-> "none", val |-> 0]

StoreInit ==
    /\ rec = NewRecord
    /\ upd = [w \in Writers |-> NoUpdate]

TaskIds == 1..MaxTasks
Threads == 1..MaxThreads

\* TaskQueue(max_queue_size=100, max_history_size=100), the sizes
\* init_task_queue() builds the queue with, scaled to the model.
max_queue_size == MaxQueue
max_history_size == MaxQueue

\* What a call of add_task, cancel_task or clear_queue gave: the task added
\* or ValueError, True or False, the number of tasks cleared.
Returned(op, t, res, n) == [op |-> op, task |-> t, result |-> res, count |-> n]

\* An id without a task, and a thread that does not run (not started yet,
\* or ended).
NoSuchTask == [status |-> "none", position |-> 0]
NoThread == [pc |-> "none", task |-> 0]

\* TaskQueue.__init__: empty queue, history and index, no current task, not
\* running, no worker thread.
QueueInit ==
    /\ queue = << >>
    /\ history = << >>
    /\ tasks = [t \in TaskIds |-> NoSuchTask]
    /\ current = 0
    /\ running = FALSE
    /\ thread = [w \in Threads |-> NoThread]
    /\ ret = Returned("none", 0, "none", 0)

\* ModelFileManager.__init__ and _prerun: empty table, idle pool.
InitWith(items, disks) ==
    /\ item \in items
    /\ active = << >>
    /\ nexec = 0
    /\ task = [e \in Execs |-> NoTask]
    /\ flag = [e \in Execs |-> FALSE]
    /\ cc = [e \in Execs |-> "none"]
    /\ hd = [e \in Execs |-> "none"]
    /\ disk \in disks
    /\ serr = {}
    /\ now = ThrottleSeconds
    /\ dupSeen = FALSE
    /\ ignored = "none"
    /\ WatcherInit
    /\ StoreInit
    /\ QueueInit

\* ------------------------------------------------------------- scheduler
\* _create_download_task past its check of the table: a fresh cancel flag,
\* the task submitted to the pool, the entry registered and the
\* _check_completion coroutine created.
SubmitDownload(id) ==
    /\ nexec < MaxExecs
    /\ nexec' = nexec + 1
    /\ flag' = [flag EXCEPT ![nexec + 1] = FALSE]
    /\ task' = [task EXCEPT ![nexec + 1] =
                   [NoTask EXCEPT !.id = id, !.fut = "pending",
                                  !.size = item[id].size]]
    /\ active' = [i \in DOMAIN active \cup {id} |->
                     IF i = id THEN nexec + 1 ELSE active[i]]
    /\ cc' = [cc EXCEPT ![nexec + 1] = "waiting"]
    /\ UNCHANGED <<item, hd, disk, serr, now, dupSeen, other>>

\* _create_download_task without "if model_file.id in self._active_downloads".
CreateDownloadTask_NoCheck(id) == SubmitDownload(id)

\* _handle_model_file_event for a CREATED/UPDATED event of a DOWNLOADING item
\* of this worker: _create_download_task.
CreateDownloadTask(id) ==
    IF id \in DOMAIN active
    THEN /\ dupSeen' = TRUE
         /\ UNCHANGED <<item, active, nexec, task, flag, cc, hd, disk, serr, now, other>>
    ELSE SubmitDownload(id)


\* ------------------------------------------------------------------ pool
\* ProcessPoolExecutor: the executor's manager thread moves the oldest
\* pending work item into the call queue while the queue is not full, and
\* marks its future RUNNING.
PoolEnqueue ==
    /\ InState("pending") # {}
    /\ Cardinality(InState("queued")) < CallQueueSize
    /\ task' = [task EXCEPT ![SetMin(InState("pending"))].fut = "queued"]
    /\ UNCHANGED <<item, active, nexec, flag, cc, hd, disk, serr, now, dupSeen, ignored, other>>

\* A pool that starts a process for every call it is given.
FreeSlot_Unbounded == TRUE

\* A worker process of the pool is idle.
FreeSlot == Cardinality(InState("executing")) < PoolSize

\* An idle worker process takes the oldest call item and calls
\* download_task.run.
PoolStart ==
    /\ InState("queued") # {}
    /\ FreeSlot
    /\ task' = [task EXCEPT ![SetMin(InState("queued"))] =
                   [@ EXCEPT !.fut = "executing", !.pc = "prerun"]]
    /\ UNCHANGED <<item, active, nexec, flag, cc, hd, disk, serr, now, dupSeen, ignored, other>>

\* -------------------------------------------------------------- deletion
\* if model_file.local_dir or model_file.resolved_paths:
\*     await self._cleanup_orphaned_files(model_file)
OrphanCleanup(d, id) ==
    IF item[id].local_dir \/ SnapshotResolved(id)
    THEN CleanupOrphanedFiles(d, id)
    ELSE d

\* _handle_deletion with the cleanup of the orphaned files outside of
\* "if entry:".
HandleDeletion_CleanupAlways(id) ==
    IF id \in DOMAIN active
    THEN LET e == active[id] IN
         /\ active' = [i \in DOMAIN active \ {id} |-> active[i]]
         /\ flag' = [flag EXCEPT ![e] = TRUE]
         /\ IF task[e].fut = "pending"
            THEN /\ task' = [task EXCEPT ![e].fut = "cancelled"]
                 /\ hd' = [hd EXCEPT ![e] = "delete"]
                 /\ disk' = OrphanCleanup(disk, id)
            ELSE /\ task' = [task EXCEPT ![e].inflight = At(e, "transfer")]
                 /\ hd' = [hd EXCEPT ![e] = "wait"]
                 /\ UNCHANGED disk
         /\ UNCHANGED <<item, nexec, cc, serr, now, dupSeen, other>>
    ELSE /\ disk' = IF item[id].cleanup_on_delete
                    THEN DeleteModelFile(OrphanCleanup(disk, id), id)
                    ELSE OrphanCleanup(disk, id)
         /\ UNCHANGED <<item, active, nexec, task, flag, cc, hd, serr, now, dupSeen, other>>

\* _handle_deletion up to its first suspension: pop the entry, set the flag
\* and try future.cancel(), which succeeds only for a future that is still
\* pending; then the coroutine goes on to the cleanup at once. Otherwise it
\* waits for the future. With no entry only the cleanup_on_delete part runs.
HandleDeletion(id) ==
    IF id \in DOMAIN active
    THEN LET e == active[id] IN
         /\ active' = [i \in DOMAIN active \ {id} |-> active[i]]
         /\ flag' = [flag EXCEPT ![e] = TRUE]
         /\ IF task[e].fut = "pending"
            THEN /\ task' = [task EXCEPT ![e].fut = "cancelled"]
                 /\ hd' = [hd EXCEPT ![e] = "delete"]
                 /\ disk' = OrphanCleanup(disk, id)
            ELSE /\ task' = [task EXCEPT ![e].inflight = At(e, "transfer")]
                 /\ hd' = [hd EXCEPT ![e] = "wait"]
                 /\ UNCHANGED disk
         /\ UNCHANGED <<item, nexec, cc, serr, now, dupSeen, other>>
    ELSE /\ disk' = IF item[id].cleanup_on_delete
                    THEN DeleteModelFile(disk, id)
                    ELSE disk
         /\ UNCHANGED <<item, active, nexec, task, flag, cc, hd, serr, now, dupSeen, other>>

\* An earlier DELETED event popped an entry of id.
Popped(id) == \E e \in Execs : task[e].id = id /\ hd[e] # "none"

\* The watcher returns without calling the scheduler.
Dropped(kind) ==
    /\ ignored' = kind
    /\ UNCHANGED <<item, active, nexec, task, flag, cc, hd, disk, serr, now, dupSeen, other>>

\* asyncio.create_task(self._handle_deletion(mf)), run to its first
\* suspension.
Deletion(id) ==
    /\ HandleDeletion(id)
    /\ ignored' = IF id \notin DOMAIN active /\ Popped(id)
                  THEN "redelete"
                  ELSE ignored

\* _handle_model_file_event without "if mf.worker_id != self._worker_id".
HandleModelFileEvent_NoWorkerCheck(type, id, state) ==
    IF type = "DELETED"
    THEN Deletion(id)
    ELSE IF state # "DOWNLOADING"
    THEN Dropped("echo")
    ELSE CreateDownloadTask(id) /\ UNCHANGED ignored

\* _handle_model_file_event without "if mf.state != DOWNLOADING: return".
HandleModelFileEvent_NoStateCheck(type, id, state) ==
    IF item[id].worker_id # worker_id
    THEN Dropped("foreign")
    ELSE IF type = "DELETED"
    THEN Deletion(id)
    ELSE CreateDownloadTask(id) /\ UNCHANGED ignored

\* _handle_model_file_event: the event of type CREATED, UPDATED or DELETED
\* carries the snapshot of item id with the given state. Events of another
\* worker's items are dropped; a DELETED event creates the _handle_deletion
\* task; a CREATED or UPDATED event goes to _create_download_task if the
\* item is DOWNLOADING and is dropped otherwise.
HandleModelFileEvent(type, id, state) ==
    IF item[id].worker_id # worker_id
    THEN Dropped("foreign")
    ELSE IF type = "DELETED"
    THEN Deletion(id)
    ELSE IF state # "DOWNLOADING"
    THEN Dropped("echo")
    ELSE CreateDownloadTask(id) /\ UNCHANGED ignored

\* EventType and ModelFileStateEnum.
EventTypes == {"CREATED", "UPDATED", "DELETED"}
States == {"DOWNLOADING", "READY", "ERROR"}

\* The events of the scheduler specifications: a CREATED or UPDATED event of
\* a DOWNLOADING item of this worker, and a DELETED event of such an item.
CreateEvent(id) == CreateDownloadTask(id) /\ UNCHANGED ignored
DeleteEvent(id) == HandleDeletion(id) /\ UNCHANGED ignored

\* asyncio.wait_for(asyncio.wrap_future(future), timeout=5): the future
\* completes in time (with a result or an exception); the cleanup of the
\* orphaned files follows.
WaitFutureDone(e) ==
    /\ hd[e] = "wait"
    /\ task[e].fut \in {"finished", "raised"}
    /\ hd' = [hd EXCEPT ![e] = "delete"]
    /\ disk' = OrphanCleanup(disk, task[e].id)
    /\ UNCHANGED <<item, active, nexec, task, flag, cc, serr, now, dupSeen, ignored, other>>

\* The 5 s pass first: asyncio.TimeoutError is logged (cancelling the wrapped
\* future does not stop a call that is marked running), and the cleanup of
\* the orphaned files follows while the worker goes on.
WaitTimeout(e) ==
    /\ hd[e] = "wait"
    /\ task[e].fut \in {"queued", "executing"}
    /\ hd' = [hd EXCEPT ![e] = "delete"]
    /\ disk' = OrphanCleanup(disk, task[e].id)
    /\ UNCHANGED <<item, active, nexec, task, flag, cc, serr, now, dupSeen, ignored, other>>

\* if model_file.cleanup_on_delete: await self._delete_model_file(model_file)
\* and _handle_deletion returns.
DeletionReturn(e) ==
    /\ hd[e] = "delete"
    /\ hd' = [hd EXCEPT ![e] = "done"]
    /\ disk' = IF item[task[e].id].cleanup_on_delete
               THEN DeleteModelFile(disk, task[e].id)
               ELSE disk
    /\ UNCHANGED <<item, active, nexec, task, flag, cc, serr, now, dupSeen, ignored, other>>

\* _delete_model_file when delete_path (or glob) raises on a resolved path:
\* the except clause logs and evaluates
\* "await self._update_model_file(id, state=ERROR, ...)". _update_model_file
\* is a plain function: the call writes ERROR (wrote) or raises itself, and
\* the None it returns cannot be awaited, so either way an exception leaves
\* the except clause, _delete_model_file and _handle_deletion.
DeleteFails(e, wrote) ==
    /\ hd[e] = "delete"
    /\ item[task[e].id].cleanup_on_delete
    /\ SnapshotResolved(task[e].id)
    /\ hd' = [hd EXCEPT ![e] = "raised"]
    /\ serr' = IF wrote THEN serr \cup {e} ELSE serr
    /\ UNCHANGED <<item, active, nexec, task, flag, cc, disk, now, dupSeen, ignored, other>>

\* ---------------------------------------------------------------- watcher
\* watch_model_files without "except Exception": the exception of the
\* subscription ends the watcher.
FeedFails_NoExcept ==
    /\ watcher.pc = "awatch"
    /\ watcher.fails < MaxFails
    /\ watcher' = [pc |-> "crashed", fails |-> watcher.fails + 1]
    /\ UNCHANGED <<dvars, rvars, qvars>>

\* watch_model_files: awatch raises an exception other than CancelledError;
\* the watcher logs it and starts asyncio.sleep(5).
FeedFails ==
    /\ watcher.pc = "awatch"
    /\ watcher.fails < MaxFails
    /\ watcher' = [pc |-> "sleep", fails |-> watcher.fails + 1]
    /\ UNCHANGED <<dvars, rvars, qvars>>

\* The 5 s are over: the next round of "while True" calls awatch again.
Resubscribe ==
    /\ watcher.pc = "sleep"
    /\ watcher' = [watcher EXCEPT !.pc = "awatch"]
    /\ UNCHANGED <<dvars, rvars, qvars>>

\* The watcher's task is cancelled: CancelledError breaks the loop when it
\* is raised by awatch and leaves the coroutine when raised by the sleep.
WatcherCancelled ==
    /\ watcher.pc \in {"awatch", "sleep"}
    /\ watcher' = [watcher EXCEPT !.pc = "cancelled"]
    /\ UNCHANGED <<dvars, rvars, qvars>>

\* The subscription delivers an event to its callback.
FeedEvent(type, id) ==
    /\ watcher.pc = "awatch"
    /\ IF type = "DELETED" THEN DeleteEvent(id) ELSE CreateEvent(id)

\* _check_completion without the pop of its finally clause.
CheckCompletion_NoPop(e) ==
    /\ cc[e] = "waiting"
    /\ task[e].fut \in {"finished", "raised", "cancelled"}
    /\ cc' = [cc EXCEPT ![e] = "done"]
    /\ serr' = IF task[e].fut = "raised" THEN serr \cup {e} ELSE serr
    /\ UNCHANGED <<item, active, nexec, task, flag, hd, disk, now, dupSeen, ignored, other>>

\* _check_completion: resumes when the future is done or cancelled; an
\* exception of the call is written back as ERROR; finally pops the id.
CheckCompletion(e) ==
    /\ cc[e] = "waiting"
    /\ task[e].fut \in {"finished", "raised", "cancelled"}
    /\ cc' = [cc EXCEPT ![e] = "done"]
    /\ serr' = IF task[e].fut = "raised" THEN serr \cup {e} ELSE serr
    /\ active' = [i \in DOMAIN active \ {task[e].id} |-> active[i]]
    /\ UNCHANGED <<item, nexec, task, flag, hd, disk, now, dupSeen, ignored, other>>

\* ---------------------------------------------------------------- worker
\* run() returns (normally, or after it handled the exception itself).
Return(t) == [t EXCEPT !.fut = "finished", !.pc = "end"]

\* run with an "except Exception" that only logs.
RunExcept_NoWrite(t, ok) ==
    IF ok
    THEN [t EXCEPT !.fut = "finished", !.pc = "end"]
    ELSE [t EXCEPT !.fut = "raised", !.pc = "end"]

\* run, except Exception: _update_model_file(state=ERROR, state_message=...);
\* if that update succeeds run returns, if it raises the future gets the
\* exception.
RunExcept(t, ok) ==
    IF ok
    THEN Return([t EXCEPT !.log = Append(@, Write("ERROR", 0))])
    ELSE [t EXCEPT !.fut = "raised", !.pc = "end"]

\* prerun: _ensure_model_file_size (probing and persisting an unknown size),
\* _get_existing_file_size and the initial progress report of a resumed
\* download; then _download_model_file checks the flag before the transfer
\* and raises Exception("Download cancelled") if it is set.
Prerun(e, probed) ==
    LET id == task[e].id
        sz == IF task[e].size = Null THEN probed ELSE task[e].size
        init == ExistingFileSize(id)
        report == init > 0 /\ sz > 0
    IN  /\ At(e, "prerun")
        /\ task[e].size # Null => probed = 1
        /\ task' = [task EXCEPT ![e] =
               [@ EXCEPT !.size = sz, !.initial = init,
                         !.present = disk[id][Target(id)],
                         !.last = 0,
                         !.wtime = IF report THEN now ELSE @,
                         !.exc = IF flag[e] THEN "cancelled" ELSE @,
                         !.log = (IF task[e].size = Null
                                  THEN <<Write("size", sz)>> ELSE <<>>)
                                 \o (IF report
                                     THEN <<Write("initial", Round2(init, sz))>>
                                     ELSE <<>>),
                         !.pc = IF flag[e] THEN "except" ELSE "transfer"]]
        /\ UNCHANGED <<item, active, nexec, flag, cc, hd, disk, serr, now, dupSeen, ignored, other>>

\* downloaders.get_model_file_size raises: the exception leaves prerun and
\* is handled by run's "except Exception".
ProbeFail(e, ok) ==
    /\ At(e, "prerun")
    /\ task[e].size = Null
    /\ task' = [task EXCEPT ![e] = RunExcept([@ EXCEPT !.exc = "probe"], ok)]
    /\ UNCHANGED <<item, active, nexec, flag, cc, hd, disk, serr, now, dupSeen, ignored, other>>

\* downloaders.download_model writes a byte of the artifact.
DriverWrite(e) ==
    /\ At(e, "transfer")
    /\ task[e].wrote < MaxBytes
    /\ disk' = [disk EXCEPT ![task[e].id][Target(task[e].id)] = @ + 1]
    /\ task' = [task EXCEPT ![e].wrote = @ + 1]
    /\ UNCHANGED <<item, active, nexec, flag, cc, hd, serr, now, dupSeen, ignored, other>>

\* hijack_tqdm_progress._new_update: the percentage of a callback.
ProgressPercent(downloaded, total) ==
    IF Round2(downloaded, total) > FullPercent
    THEN FullPercent
    ELSE Round2(downloaded, total)

\* hijack_tqdm_progress._new_update: write now, or wait for the throttle.
ShouldUpdate(downloaded, total, t, last) ==
    downloaded >= total \/ t - last >= ThrottleSeconds

\* hijack_tqdm_progress._new_update(n=k), called by the driver: a set flag
\* raises asyncio.CancelledError, which is no Exception, passes the handler
\* of _download_model_file and is caught by run, which returns; otherwise
\* the percentage is computed (a division by zero is logged and swallowed)
\* and written back.
TqdmUpdate(e, k) ==
    LET n2 == task[e].n + k
        total == task[e].size
        downloaded == task[e].initial + n2
        write == total # 0 /\ ShouldUpdate(downloaded, total, now, task[e].last)
    IN  /\ At(e, "transfer")
        /\ n2 <= MaxN
        /\ IF flag[e]
           THEN task' = [task EXCEPT ![e] =
                    Return([@ EXCEPT !.n = n2, !.exc = "CancelledError"])]
           ELSE task' = [task EXCEPT ![e] =
                    [@ EXCEPT !.n = n2,
                              !.last = IF write THEN now ELSE @,
                              !.wtime = IF write THEN now ELSE @,
                              !.log = IF write
                                      THEN Append(@, Write("callback",
                                               ProgressPercent(downloaded, total)))
                                      ELSE @]]
        /\ UNCHANGED <<item, active, nexec, flag, cc, hd, disk, serr, now, dupSeen, ignored, other>>

\* tqdm.__init__ (_new_init): the driver opens the progress bar of the next
\* file of the artifact; its counter n starts at 0.
NewBar(e) ==
    /\ At(e, "transfer")
    /\ task[e].bars < MaxBars
    /\ task' = [task EXCEPT ![e] = [@ EXCEPT !.bars = @ + 1, !.n = 0]]
    /\ UNCHANGED <<item, active, nexec, flag, cc, hd, disk, serr, now, dupSeen, ignored, other>>

\* downloaders.download_model returns the resolved paths, and
\* _download_model_file checks the flag again.
DriverReturn(e) ==
    /\ At(e, "transfer")
    /\ task' = [task EXCEPT ![e] =
           [@ EXCEPT !.pc = IF flag[e] THEN "except" ELSE "write_ready",
                     !.exc = IF flag[e] THEN "cancelled" ELSE @,
                     !.xfer = TRUE]]
    /\ UNCHANGED <<item, active, nexec, flag, cc, hd, disk, serr, now, dupSeen, ignored, other>>

\* downloaders.download_model raises (network, auth, driver failure).
DriverError(e) ==
    /\ At(e, "transfer")
    /\ task' = [task EXCEPT ![e] = [@ EXCEPT !.pc = "except", !.exc = "driver"]]
    /\ UNCHANGED <<item, active, nexec, flag, cc, hd, disk, serr, now, dupSeen, ignored, other>>

\* _download_model_file: _update_model_file(state=READY, download_progress=100,
\* resolved_paths=model_paths), then run returns.
WriteReady(e) ==
    /\ At(e, "write_ready")
    /\ task' = [task EXCEPT ![e] =
                   Return([@ EXCEPT !.log = Append(@, Write("READY", FullPercent))])]
    /\ UNCHANGED <<item, active, nexec, flag, cc, hd, disk, serr, now, dupSeen, ignored, other>>

\* _download_model_file, except Exception: clean up if the flag is set and
\* raise again, into run's "except Exception".
ExceptDownload(e, ok) ==
    /\ At(e, "except")
    /\ disk' = IF flag[e] THEN WorkerCleanup(e) ELSE disk
    /\ task' = [task EXCEPT ![e] = RunExcept([@ EXCEPT !.cleaned = flag[e]], ok)]
    /\ UNCHANGED <<item, active, nexec, flag, cc, hd, serr, now, dupSeen, ignored, other>>

\* The clock advances (time.time() is read by the progress callbacks only,
\* so only the seconds that pass during a transfer are distinguished).
Tick ==
    /\ \E e \in Execs : At(e, "transfer")
    /\ now < ThrottleSeconds + MaxTime
    /\ now' = now + 1
    /\ UNCHANGED <<item, active, nexec, task, flag, cc, hd, disk, serr, dupSeen, ignored, other>>

\* ------------------------------------------------------- specifications
\* The work items of the scheduler specification: the odd ids are items
\* of a repository-style source with a local_dir and a known size, the even
\* ids Ollama items without local_dir whose size is still to be probed and
\* whose files are to be deleted with the record.
SchedulerItems ==
    [id \in Ids |->
        IF id % 2 = 1
        THEN [local_dir |-> TRUE, ollama |-> FALSE, size |-> MaxBytes,
              resolved |-> FALSE, cleanup_on_delete |-> FALSE,
              worker_id |-> worker_id]
        ELSE [local_dir |-> FALSE, ollama |-> TRUE, size |-> Null,
              resolved |-> FALSE, cleanup_on_delete |-> TRUE,
              worker_id |-> worker_id]]

Init == InitWith({SchedulerItems}, [Ids -> {[local |-> 0, cache |-> 0]}])

Scheduler ==
    \/ \E id \in Ids : CreateEvent(id)
    \/ \E id \in Ids : DeleteEvent(id)
    \/ PoolEnqueue
    \/ PoolStart
    \/ \E e \in Execs : WaitFutureDone(e)
    \/ \E e \in Execs : WaitTimeout(e)
    \/ \E e \in Execs : DeletionReturn(e)
    \/ \E e \in Execs : CheckCompletion(e)

\* The steps of the worker processes; chunks are the byte counts the driver
\* passes to a progress callback.
Worker(chunks) ==
    \/ \E e \in Execs : \E s \in 1..MaxProbe : Prerun(e, s)
    \/ \E e \in Execs : \E ok \in BOOLEAN : ProbeFail(e, ok)
    \/ \E e \in Execs : DriverWrite(e)
    \/ \E e \in Execs : \E k \in chunks : TqdmUpdate(e, k)
    \/ \E e \in Execs : DriverReturn(e)
    \/ \E e \in Execs : DriverError(e)
    \/ \E e \in Execs : WriteReady(e)
    \/ \E e \in Execs : \E ok \in BOOLEAN : ExceptDownload(e, ok)

\* The scheduler with its pool: every interleaving of events, pool steps and
\* worker steps; a driver reports its bytes in one callback.
Next == Scheduler \/ Worker({MaxN})

Spec == Init /\ [][Next]_vars

\* One download from its CREATED event to the end of its worker and of its
\* deletion handler, for every kind of item: local_dir given or not, Ollama
\* or another source kind, size unknown, zero or positive, resolved_paths
\* listing the target or empty, and any number of bytes already on disk.
WorkerItems ==
    {[id \in Ids |-> [local_dir |-> l, ollama |-> o, size |-> s,
                      resolved |-> r, cleanup_on_delete |-> c,
                      worker_id |-> worker_id]] :
        l \in BOOLEAN, o \in BOOLEAN, r \in BOOLEAN, c \in BOOLEAN,
        s \in {Null} \cup 0..MaxSize}

WorkerDisks ==
    {[id \in Ids |-> [local |-> a, cache |-> b]] :
        a \in 0..MaxResume, b \in 0..MaxResume}

\* The bytes on disk before the download lie where the driver of the item
\* puts them.
InitW ==
    /\ InitWith(WorkerItems, WorkerDisks)
    /\ \A id \in Ids : disk[id][IF Target(id) = "local" THEN "cache" ELSE "local"] = 0

\* The CREATED event of the download.
CreateOnce == nexec = 0 /\ CreateEvent(1)

NextW ==
    \/ CreateOnce
    \/ DeleteEvent(1)
    \/ PoolEnqueue
    \/ PoolStart
    \/ \E e \in Execs : WaitFutureDone(e)
    \/ \E e \in Execs : WaitTimeout(e)
    \/ \E e \in Execs : DeletionReturn(e)
    \/ \E e \in Execs : CheckCompletion(e)
    \/ Worker(1..MaxN)
    \/ \E e \in Execs : NewBar(e)
    \/ Tick

SpecW == InitW /\ [][NextW]_vars

\* The watcher: every event the change feed can deliver, of any type and
\* with any state in its snapshot, while the drivers and the record store
\* do not fail. The odd ids are items of this worker
\* (with a local_dir, and either with resolved_paths, a known size and
\* cleanup_on_delete false or with none of them and cleanup_on_delete true),
\* the even ids Ollama items assigned to another worker.
EventItems ==
    {[id \in Ids |->
         IF id % 2 = 1
         THEN [local_dir |-> TRUE, ollama |-> FALSE,
               size |-> IF r THEN MaxBytes ELSE Null,
               resolved |-> r, cleanup_on_delete |-> ~r,
               worker_id |-> worker_id]
         ELSE [local_dir |-> FALSE, ollama |-> TRUE, size |-> Null,
               resolved |-> FALSE, cleanup_on_delete |-> TRUE,
               worker_id |-> OtherWorker]] :
        r \in BOOLEAN}

\* The resolved paths of an item exist on disk, under its local_dir.
InitE ==
    /\ InitWith(EventItems, [Ids -> {[local |-> b, cache |-> 0] : b \in 0..MaxBytes}])
    /\ \A id \in Ids : disk[id].local = IF item[id].resolved THEN MaxBytes ELSE 0

NextE ==
    \/ \E type \in EventTypes : \E id \in Ids : \E state \in States :
           HandleModelFileEvent(type, id, state)
    \/ PoolEnqueue
    \/ PoolStart
    \/ \E e \in Execs : WaitFutureDone(e)
    \/ \E e \in Execs : WaitTimeout(e)
    \/ \E e \in Execs : DeletionReturn(e)
    \/ \E e \in Execs : CheckCompletion(e)
    \/ \E e \in Execs : Prerun(e, 1)
    \/ \E e \in Execs : DriverWrite(e)
    \/ \E e \in Execs : TqdmUpdate(e, MaxN)
    \/ \E e \in Execs : DriverReturn(e)
    \/ \E e \in Execs : WriteReady(e)
    \/ \E e \in Execs : ExceptDownload(e, TRUE)

SpecE == InitE /\ [][NextE]_vars

\* The watcher with a change feed that fails, and deletions whose removal of
\* files fails, while the drivers do not fail. The feed delivers the events
\* of the items whose files are to be deleted with the record.
NextF ==
    \/ \E type \in EventTypes : \E id \in Ids :
           item[id].cleanup_on_delete /\ FeedEvent(type, id)
    \/ FeedFails
    \/ Resubscribe
    \/ WatcherCancelled
    \/ PoolEnqueue
    \/ PoolStart
    \/ \E e \in Execs : WaitFutureDone(e)
    \/ \E e \in Execs : WaitTimeout(e)
    \/ \E e \in Execs : DeletionReturn(e)
    \/ \E e \in Execs : \E wrote \in BOOLEAN : DeleteFails(e, wrote)
    \/ \E e \in Execs : CheckCompletion(e)
    \/ \E e \in Execs : Prerun(e, 1)
    \/ \E e \in Execs : DriverWrite(e)
    \/ \E e \in Execs : TqdmUpdate(e, MaxN)
    \/ \E e \in Execs : DriverReturn(e)
    \/ \E e \in Execs : WriteReady(e)
    \/ \E e \in Execs : ExceptDownload(e, TRUE)

SpecF == Init /\ [][NextF]_vars

\* ----------------------------------------------------------- record store
\* The keyword arguments of the calls of _update_model_file: the worker
\* writes the size it probed, a download_progress, READY with
\* download_progress 100, or ERROR with a message; the scheduler writes
\* ERROR with a message.
Calls(w) ==
    IF w = "worker"
    THEN {[call |-> "size", val |-> MaxSize],
          [call |-> "progress", val |-> FullPercent \div 2],
          [call |-> "progress", val |-> FullPercent],
          [call |-> "ready", val |-> FullPercent],
          [call |-> "error", val |-> 0]}
    ELSE {[call |-> "error", val |-> 0]}

\* model_file_update = ModelFileUpdate(**model_file_public.model_dump()),
\* then setattr(model_file_update, key, value) for every keyword argument:
\* all fields of the record read, with the given ones replaced.
ModelFileUpdate(snap, call, val) ==
    IF call = "size" THEN [snap EXCEPT !.size = val]
    ELSE IF call = "progress" THEN [snap EXCEPT !.download_progress = val]
    ELSE IF call = "ready"
    THEN [snap EXCEPT !.state = "READY", !.download_progress = val]
    ELSE [snap EXCEPT !.state = "ERROR", !.state_message = "failed"]

\* _update_model_file, first half: self._clientset.model_files.get(id=id).
UpdateGet(w, c) ==
    /\ upd[w].pc = "idle"
    /\ upd' = [upd EXCEPT ![w] =
           [pc |-> "got", snap |-> rec, call |-> c.call, val |-> c.val]]
    /\ UNCHANGED <<rec, dvars, watcher, qvars>>

\* _update_model_file, second half:
\* self._clientset.model_files.update(id=id, model_update=model_file_update)
\* stores every field of the update.
UpdatePut(w) ==
    /\ upd[w].pc = "got"
    /\ rec' = ModelFileUpdate(upd[w].snap, upd[w].call, upd[w].val)
    /\ upd' = [upd EXCEPT ![w] = NoUpdate]
    /\ UNCHANGED <<dvars, watcher, qvars>>

\* The writers of one record, each with one call at a time.
NextR ==
    \/ \E w \in Writers : \E c \in Calls(w) : UpdateGet(w, c)
    \/ \E w \in Writers : UpdatePut(w)

SpecR == Init /\ [][NextR]_vars

\* ------------------------------------------------------------ task queue
\* The statuses of TaskStatus; "none" is the status of an id without a task.
TaskStatus == {"PENDING", "RUNNING", "COMPLETED", "FAILED", "CANCELLED"}

\* Task t waits in the pending queue q.
InQueue(q, t) == \E i \in 1..Len(q) : q[i] = t

\* deque.remove(task), with the ValueError of a task that is not in the
\* queue swallowed.
Remove(q, t) == SelectSeq(q, LAMBDA x : x # t)

\* _update_queue_positions: the i-th task of the queue (from 0) gets
\* position i + 1; the position of a task that left the queue stays.
UpdateQueuePositions(ts, q) ==
    [t \in TaskIds |->
        IF InQueue(q, t)
        THEN [ts[t] EXCEPT !.position = CHOOSE i \in 1..Len(q) : q[i] = t]
        ELSE ts[t]]

\* self._history.append(task) on a deque(maxlen=max_history_size): the oldest
\* entry falls out of a full history.
HistoryAppend(h, t) ==
    IF Len(h) >= max_history_size THEN Append(Tail(h), t) ELSE Append(h, t)

\* The history after the tasks of q have been appended one after the other.
RECURSIVE HistoryExtend(_, _)
HistoryExtend(h, q) ==
    IF q = << >> THEN h ELSE HistoryExtend(HistoryAppend(h, Head(q)), Tail(q))

\* The ids no add_task has used: uuid4 yields a fresh one each time.
Unused == {t \in TaskIds : tasks[t].status = "none"}

\* What the queue's operations leave alone.
noqueue == <<dvars, watcher, rvars>>

\* start(): nothing if the queue is running, else _running is set and a new
\* thread runs _worker_loop. The stop() before it has returned: a thread
\* that was not inside a task has seen _running false and ended within the
\* 5 s of the join.
Start ==
    /\ ~running
    /\ \A v \in Threads : thread[v].pc \notin {"loop", "next"}
    /\ \E w \in Threads :
          /\ thread[w].pc = "none"
          /\ \A v \in Threads : v < w => thread[v].pc # "none"
          /\ thread' = [thread EXCEPT ![w] = [pc |-> "loop", task |-> 0]]
    /\ running' = TRUE
    /\ UNCHANGED <<queue, history, tasks, current, ret, noqueue>>

\* stop(): _running is cleared; join(timeout=5) returns when the thread has
\* ended or after 5 s while the thread is still inside a task.
Stop ==
    /\ running
    /\ running' = FALSE
    /\ UNCHANGED <<queue, history, tasks, current, thread, ret, noqueue>>

\* _worker_loop: "while self._running" is evaluated; the thread ends when it
\* is false.
WorkerLoop(w) ==
    /\ thread[w].pc = "loop"
    /\ thread' = [thread EXCEPT ![w] =
           IF running THEN [pc |-> "next", task |-> 0] ELSE NoThread]
    /\ UNCHANGED <<queue, history, tasks, current, running, ret, noqueue>>

\* _get_next_task, under the lock: the head of the queue becomes the current
\* task if there is none; otherwise the loop sleeps 0.1 s and starts over.
GetNextTask(w) ==
    /\ thread[w].pc = "next"
    /\ IF queue # << >> /\ current = 0
       THEN /\ queue' = Tail(queue)
            /\ current' = Head(queue)
            /\ tasks' = UpdateQueuePositions(tasks, Tail(queue))
            /\ thread' = [thread EXCEPT ![w] =
                   [pc |-> "execute", task |-> Head(queue)]]
       ELSE /\ thread' = [thread EXCEPT ![w] = [pc |-> "loop", task |-> 0]]
            /\ UNCHANGED <<queue, current, tasks>>
    /\ UNCHANGED <<history, running, ret, noqueue>>

\* _execute_task, outside the lock: the status becomes RUNNING and the task
\* handler is called with the task.
ExecuteTask(w) ==
    /\ thread[w].pc = "execute"
    /\ tasks' = [tasks EXCEPT ![thread[w].task].status = "RUNNING"]
    /\ thread' = [thread EXCEPT ![w].pc = "handler"]
    /\ UNCHANGED <<queue, history, current, running, ret, noqueue>>

\* The handler returns (COMPLETED), or it raises or none is set (FAILED).
HandlerReturns(w, ok) ==
    /\ thread[w].pc = "handler"
    /\ tasks' = [tasks EXCEPT ![thread[w].task].status =
                    IF ok THEN "COMPLETED" ELSE "FAILED"]
    /\ thread' = [thread EXCEPT ![w].pc = "finally"]
    /\ UNCHANGED <<queue, history, current, running, ret, noqueue>>

\* The finally clause of _execute_task, under the lock: no current task, and
\* the task is appended to the history.
ExecuteFinally(w) ==
    /\ thread[w].pc = "finally"
    /\ current' = 0
    /\ history' = HistoryAppend(history, thread[w].task)
    /\ thread' = [thread EXCEPT ![w] = [pc |-> "loop", task |-> 0]]
    /\ UNCHANGED <<queue, tasks, running, ret, noqueue>>

\* add_task without the check of the queue's length.
AddTask_NoLimit ==
    /\ Unused # {}
    /\ LET t == SetMin(Unused)
       IN  /\ tasks' = [tasks EXCEPT ![t] =
                  [status |-> "PENDING", position |-> Len(queue) + 1]]
           /\ queue' = Append(queue, t)
           /\ ret' = Returned("add_task", t, "Task", 0)
    /\ UNCHANGED <<history, current, running, thread, noqueue>>

\* add_task, under the lock: ValueError if the queue is full, else a PENDING
\* task with a fresh id and position len(queue) + 1 is appended to the queue
\* and entered in the index.
AddTask ==
    IF Len(queue) >= max_queue_size
    THEN /\ ret' = Returned("add_task", 0, "ValueError", 0)
         /\ UNCHANGED <<queue, history, tasks, current, running, thread, noqueue>>
    ELSE /\ Unused # {}
         /\ LET t == SetMin(Unused)
            IN  /\ tasks' = [tasks EXCEPT ![t] =
                       [status |-> "PENDING", position |-> Len(queue) + 1]]
                /\ queue' = Append(queue, t)
                /\ ret' = Returned("add_task", t, "Task", 0)
         /\ UNCHANGED <<history, current, running, thread, noqueue>>

\* cancel_task without its call of _update_queue_positions.
CancelTask_NoPositions(t) ==
    IF tasks[t].status # "PENDING"
    THEN /\ ret' = Returned("cancel_task", t, "False", 0)
         /\ UNCHANGED <<queue, history, tasks, current, running, thread, noqueue>>
    ELSE /\ queue' = Remove(queue, t)
         /\ tasks' = [tasks EXCEPT ![t].status = "CANCELLED"]
         /\ history' = HistoryAppend(history, t)
         /\ ret' = Returned("cancel_task", t, "True", 0)
         /\ UNCHANGED <<current, running, thread, noqueue>>

\* cancel_task(t), under the lock: False for an id without a task and for a
\* task whose status is not PENDING; else the task is removed from the queue
\* if it is there, becomes CANCELLED and is appended to the history, the
\* positions are renumbered and the result is True.
CancelTask(t) ==
    IF tasks[t].status # "PENDING"
    THEN /\ ret' = Returned("cancel_task", t, "False", 0)
         /\ UNCHANGED <<queue, history, tasks, current, running, thread, noqueue>>
    ELSE /\ queue' = Remove(queue, t)
         /\ tasks' = UpdateQueuePositions(
                         [tasks EXCEPT ![t].status = "CANCELLED"],
                         Remove(queue, t))
         /\ history' = HistoryAppend(history, t)
         /\ ret' = Returned("cancel_task", t, "True", 0)
         /\ UNCHANGED <<current, running, thread, noqueue>>

\* clear_queue without the append to the history.
ClearQueue_NoHistory ==
    /\ ret' = Returned("clear_queue", 0, "int", Len(queue))
    /\ tasks' = [t \in TaskIds |->
                    IF InQueue(queue, t)
                    THEN [tasks[t] EXCEPT !.status = "CANCELLED"]
                    ELSE tasks[t]]
    /\ queue' = << >>
    /\ UNCHANGED <<history, current, running, thread, noqueue>>

\* clear_queue, under the lock: every task of the queue becomes CANCELLED
\* and is appended to the history, the queue is emptied, and the number of
\* tasks it held is returned.
ClearQueue ==
    /\ ret' = Returned("clear_queue", 0, "int", Len(queue))
    /\ tasks' = [t \in TaskIds |->
                    IF InQueue(queue, t)
                    THEN [tasks[t] EXCEPT !.status = "CANCELLED"]
                    ELSE tasks[t]]
    /\ history' = HistoryExtend(history, queue)
    /\ queue' = << >>
    /\ UNCHANGED <<current, running, thread, noqueue>>

\* get_queue_status()["queue_length"] and get_pending_count().
QueueLength == Len(queue)

\* The task queue with its callers and its worker threads.
NextQ ==
    \/ Start
    \/ Stop
    \/ AddTask
    \/ \E t \in TaskIds : CancelTask(t)
    \/ ClearQueue
    \/ \E w \in Threads : WorkerLoop(w)
    \/ \E w \in Threads : GetNextTask(w)
    \/ \E w \in Threads : ExecuteTask(w)
    \/ \E w \in Threads : \E ok \in BOOLEAN : HandlerReturns(w, ok)
    \/ \E w \in Threads : ExecuteFinally(w)

SpecQ == Init /\ [][NextQ]_vars

\* ---------------------------------------------------------------- claims
\* C1: EnsureRunning is idempotent. A step submits an execution for an id
\* only if the id has no entry in the active-task table (so a CREATED or
\* UPDATED event for an id that has one submits no worker and allocates no
\* flag), and no step replaces the entry of an id by another one.
C1_EnsureRunningIdempotent ==
    [][/\ \A e \in Execs :
            (nexec < e /\ e <= nexec') => task'[e].id \notin DOMAIN active
       /\ \A id \in DOMAIN active \cap DOMAIN active' : active'[id] = active[id]
      ]_vars

\* A duplicate event was ignored: one execution only, its entry still there.
C1_Witness == dupSeen /\ nexec = 1 /\ DOMAIN active # {}

\* C2: for every id at most one execution is queued or running in the pool.
C2_AtMostOneExecutionPerId ==
    \A id \in Ids : Cardinality(Live(id)) <= 1

\* C3: an execution cancelled before it started has no entry in the table,
\* has written no byte and never starts.
C3_CancelBeforeStart ==
    [][\A e \in Execs :
          (flag[e] /\ task[e].pc = "idle") =>
              /\ \A id \in DOMAIN active : active[id] # e
              /\ task[e].wrote = 0
              /\ task'[e].pc = "idle"
      ]_vars

\* C4: when _handle_deletion returns for an item that was running a
\* transfer, nothing is left under the item's local_dir.
C4_LocalDirGoneAtReturn ==
    [][\A e \in Execs :
          (task[e].inflight /\ hd[e] = "delete" /\ hd'[e] = "done"
             /\ item[task[e].id].local_dir) => disk'[task[e].id].local = 0
      ]_vars

\* C5: once the deletion handler and the worker of an item cancelled during
\* its transfer have both finished, none of its downloaded bytes is left
\* on disk.
C5_NoOrphanedBytes ==
    \A e \in Execs :
        (/\ task[e].inflight
         /\ hd[e] = "done"
         /\ task[e].fut \in {"finished", "raised"}
         /\ \A o \in Execs \ {e} : task[o].id = task[e].id => task[o].wrote = 0)
        => disk[task[e].id] = [local |-> 0, cache |-> 0]

\* C6: no worker issues the state=READY update once the cancel flag of its
\* execution is set.
C6_NoReadyAfterCancel ==
    [][\A e \in Execs :
          (~Wrote(e, "READY") /\ Wrote(e, "READY")') => ~flag[e]
      ]_vars

\* C7: the only fields a worker writes to the record store are size and
\* download_progress.
C7_WorkerWritesOnlyProgress ==
    \A e \in Execs : \A i \in 1..Len(task[e].log) :
        task[e].log[i].kind \in {"size", "initial", "callback"}

\* C8: the number of executions running at the same time never exceeds
\* min(max_concurrent_downloads, cpu_count()).
C8_PoolBound ==
    Cardinality(InState("executing")) <= Min(max_concurrent_downloads, CpuCount)

\* The pool is full, a call waits in its queue, and one of the running
\* executions has lost its entry to a deletion that gave up waiting for it.
C8_Witness ==
    /\ Cardinality(InState("executing")) = Min(max_concurrent_downloads, CpuCount)
    /\ InState("queued") # {}
    /\ \E e \in InState("executing") : hd[e] = "delete"

\* C9: every download_progress value a worker writes is at most 100.
C9_ProgressAtMost100 ==
    \A e \in Execs : \A i \in 1..Len(ProgressLog(e)) :
        ProgressLog(e)[i].v <= FullPercent

\* C10: for an item of declared size S > 0 with D <= S bytes of its target
\* on disk, once prerun is over the first progress update of the worker is
\* the initial report round(D / S * 100, 2).
C10_FirstReportIsResumePoint ==
    \A e \in Execs :
        LET S == item[task[e].id].size
            D == task[e].present
        IN  (task[e].pc \notin {"idle", "prerun"} /\ S > 0 /\ D <= S) =>
                /\ ProgressLog(e) # << >>
                /\ ProgressLog(e)[1] = Write("initial", Round2(D, S))

\* C11: the download_progress updates of one worker execution never go
\* down: no update (the initial report, then the callback reports of all
\* progress bars of the driver) carries a lower percentage than the one
\* before it.
C11_ProgressMonotone ==
    \A e \in Execs : \A i \in 1..(Len(ProgressLog(e)) - 1) :
        ProgressLog(e)[i].v <= ProgressLog(e)[i + 1].v

\* A report that is not the one of a final tick (downloaded >= size): for
\* the sizes of the model a percentage below 100.00 means downloaded < size.
NonFinal(w) == w.v < FullPercent

\* C12: two consecutive non-final download_progress updates of an execution
\* (the initial resume report included) are at least 2 seconds apart.
C12_Throttle ==
    [][\A e \in Execs :
          LET old == ProgressLog(e)
              new == ProgressLog(e)'
          IN  (/\ Len(new) = Len(old) + 1
               /\ Len(old) > 0
               /\ NonFinal(old[Len(old)])
               /\ NonFinal(new[Len(new)]))
              => now - task[e].wtime >= ThrottleSeconds
      ]_vars

\* C13: no step removes bytes at the resolved paths of an item whose
\* cleanup_on_delete is false, with or without an ActiveTask at its DELETED
\* event.
C13_KeepResolvedPaths ==
    [][\A id \in Ids :
          (~item[id].cleanup_on_delete /\ SnapshotResolved(id))
              => disk'[id][Target(id)] >= disk[id][Target(id)]
      ]_vars

\* C14: a worker that stopped because it saw its cancel flag set (before the
\* transfer, in a progress callback or after the transfer) has run
\* _cleanup_downloaded_files when its execution is over.
C14_CleanupAfterCancel ==
    \A e \in Execs :
        (task[e].pc = "end" /\ task[e].exc \in {"cancelled", "CancelledError"})
            => task[e].cleaned

\* C16: for an execution that ended because its cancel flag was set, neither
\* the worker nor the scheduler's completion handler writes state=ERROR.
C16_CancelIsNoError ==
    \A e \in Execs :
        task[e].exc \in {"cancelled", "CancelledError"}
            => ~Wrote(e, "ERROR") /\ e \notin serr

\* C15: when the driver of an execution raised and no cancellation was
\* requested, then once its completion handler has run state=ERROR has been
\* written for the item (by the worker, or by the handler if the worker's
\* update failed) and the execution has no entry in the table; the step of
\* the handler leaves the entries of the other items, the other executions
\* and their flags as they are.
C15_DriverErrorReported ==
    [][\A e \in Execs :
          (task'[e].exc = "driver" /\ ~flag'[e] /\ cc'[e] = "done") =>
              /\ Wrote(e, "ERROR")' \/ e \in serr'
              /\ \A id \in DOMAIN active' : active'[id] # e
              /\ cc[e] = "waiting" =>
                    /\ \A id \in Ids \ {task[e].id} :
                          /\ id \in DOMAIN active <=> id \in DOMAIN active'
                          /\ id \in DOMAIN active => active'[id] = active[id]
                    /\ \A o \in Execs \ {e} :
                          task'[o] = task[o] /\ flag'[o] = flag[o]
      ]_vars

\* The driver of an execution failed, the worker wrote ERROR, its entry is
\* gone, and an execution of another item submitted after it is running.
C15_Witness ==
    \E e, o \in Execs :
        /\ e < o
        /\ task[e].exc = "driver" /\ ~flag[e] /\ cc[e] = "done"
        /\ Wrote(e, "ERROR")
        /\ task[o].id # task[e].id
        /\ task[o].fut = "executing"

\* C17: the entry of an execution is removed once: after its completion
\* handler or a deletion handler has run for it the entry is gone, whichever
\* of the two came first, and an entry that was removed never comes back.
C17_RemovedExactlyOnce ==
    [][\A e \in Execs :
          /\ (e <= nexec /\ ~Registered(e)) => ~Registered(e)'
          /\ (cc'[e] = "done" \/ hd'[e] # "none") => ~Registered(e)'
      ]_vars

\* A cancellation and a completion raced: the deletion handler popped the
\* entry of a running execution and has returned, the execution has ended
\* and its completion handler has run and found no entry.
C17_Witness ==
    \E e \in Execs :
        /\ hd[e] = "done"
        /\ task[e].inflight
        /\ task[e].fut \in {"finished", "raised"}
        /\ cc[e] = "done"

C19_ForeignEventsIgnored ==
    [][\A type \in EventTypes : \A id \in Ids : \A state \in States :
          (item[id].worker_id # worker_id /\ HandleModelFileEvent(type, id, state))
          => UNCHANGED <<active, nexec, task, flag, cc, hd, disk, serr>>
      ]_vars

\* An event of another worker's item was dropped while a download of this
\* worker is running.
C19_Witness ==
    /\ ignored = "foreign"
    /\ \E e \in Execs : Registered(e) /\ task[e].fut = "executing"

\* C20: for an item of this worker, a DELETED event pops the entry of the id
\* and sets its flag whatever the state of the item, a CREATED or UPDATED
\* event of a DOWNLOADING item leaves the id with an entry (the one it had,
\* or a new one), and a CREATED or UPDATED event of an item in another state
\* changes nothing.
C20_Dispatch ==
    [][\A type \in EventTypes : \A id \in Ids : \A state \in States :
          (item[id].worker_id = worker_id /\ HandleModelFileEvent(type, id, state))
          => IF type = "DELETED"
             THEN /\ id \notin DOMAIN active'
                  /\ id \in DOMAIN active => flag'[active[id]]
             ELSE IF state = "DOWNLOADING"
             THEN /\ id \in DOMAIN active'
                  /\ id \in DOMAIN active =>
                        UNCHANGED <<active, nexec, task, flag, cc, hd, disk>>
             ELSE UNCHANGED <<active, nexec, task, flag, cc, hd, disk, serr,
                              dupSeen>>
      ]_vars

\* The echo of a READY or ERROR record was dropped after a download of the
\* item had been started and written READY.
C20_Witness ==
    /\ ignored = "echo"
    /\ \E e \in Execs : Wrote(e, "READY") /\ cc[e] = "done"

\* C21: a failure of the change feed never ends the watcher: the step that
\* fails takes the watcher to its 5 s sleep and leaves the active-task table,
\* the pool, the workers, the deletions and the files as they are, the sleep
\* ends in a new subscription (or in the cancellation of the watcher), after
\* any number of failures, and the watcher never ends otherwise than by
\* cancellation.
C21_FeedFailureSurvived ==
    [][/\ watcher'.pc # "crashed"
       /\ watcher'.fails > watcher.fails
          => /\ watcher'.pc = "sleep"
             /\ UNCHANGED <<active, nexec, task, flag, cc, hd, disk, serr>>
       /\ (watcher.pc = "sleep" /\ watcher'.pc # "sleep")
          => watcher'.pc \in {"awatch", "cancelled"}
       /\ watcher.pc = "sleep" => ENABLED Resubscribe
      ]_vars

\* The feed has failed MaxFails times and the watcher is subscribed again,
\* while a worker registered before the last failure is still transferring.
C21_Witness ==
    /\ watcher = [pc |-> "awatch", fails |-> MaxFails]
    /\ \E e \in Execs : Registered(e) /\ At(e, "transfer")

\* C22: the resume offset counts every byte that is on disk once: for an item
\* whose target lies under its local_dir, the baseline prerun computes is the
\* number of bytes of the target that were on disk at that time, also when
\* resolved_paths lists the target.
C22_ResumeCountedOnce ==
    \A e \in Execs :
        (task[e].pc \notin {"idle", "prerun"} /\ Target(task[e].id) = "local")
            => task[e].initial = task[e].present

\* C23: cancel_task returns True only for a PENDING task, which is CANCELLED
\* from then on (so its status never becomes RUNNING: the handler is not
\* called for it), and a call that returns False changes nothing, also when
\* the call interleaves with the worker thread that takes the task.
C23_CancelledNeverRuns ==
    [][\A t \in TaskIds :
          /\ (ret' # ret /\ ret' = Returned("cancel_task", t, "True", 0))
             => tasks[t].status = "PENDING" /\ tasks'[t].status = "CANCELLED"
          /\ tasks[t].status = "CANCELLED" => tasks'[t].status = "CANCELLED"
          /\ (ret' # ret /\ ret' = Returned("cancel_task", t, "False", 0))
             => UNCHANGED <<queue, history, tasks, current>>
      ]_vars

\* C24: the i-th task of the pending queue (from 0) has position i + 1 and
\* is PENDING, no task is in the queue twice, and queue_length is the number
\* of PENDING tasks no worker thread has taken (a cancelled task does not
\* count).
C24_Positions ==
    /\ \A i \in 1..Len(queue) :
          /\ tasks[queue[i]].position = i
          /\ tasks[queue[i]].status = "PENDING"
    /\ QueueLength =
          Cardinality({t \in TaskIds : /\ tasks[t].status = "PENDING"
                                       /\ \A w \in Threads : thread[w].task # t})

\* The task at the head of the queue was cancelled and the task behind it
\* has moved up to position 1.
C24_Witness ==
    \E t \in TaskIds :
        /\ ret = Returned("cancel_task", t, "True", 0)
        /\ queue # << >>
        /\ queue[1] > t
        /\ tasks[queue[1]].position = 1

\* C25: clear_queue returns the number of tasks that were pending and leaves
\* none pending; every task it cleared is CANCELLED and in the history; the
\* current task and the worker threads are as before.
C25_ClearQueue ==
    [][(ret' # ret /\ ret'.op = "clear_queue")
          => /\ ret'.count = Len(queue)
             /\ QueueLength' = 0
             /\ \A t \in TaskIds :
                   InQueue(queue, t)
                   => tasks'[t].status = "CANCELLED" /\ InQueue(history', t)
             /\ UNCHANGED <<current, thread, running>>
             /\ current # 0 => tasks'[current] = tasks[current]
      ]_vars

\* Two pending tasks were cleared while a third one was running.
C25_Witness ==
    /\ ret = Returned("clear_queue", 0, "int", 2)
    /\ current # 0
    /\ tasks[current].status = "RUNNING"
    /\ \E w \in Threads : thread[w] = [pc |-> "handler", task |-> current]

\* C26: add_task on a queue that holds max_queue_size tasks raises ValueError
\* and leaves the queue, the index and the positions as they are; it raises
\* in no other case; the queue never holds more than max_queue_size tasks.
C26_QueueFull ==
    [][/\ Len(queue') <= max_queue_size
       /\ (AddTask /\ Len(queue) = max_queue_size)
          => ret' = Returned("add_task", 0, "ValueError", 0) /\ UNCHANGED <<queue, tasks>>
       /\ (ret' # ret /\ ret' = Returned("add_task", 0, "ValueError", 0))
          => Len(queue) = max_queue_size /\ UNCHANGED <<queue, tasks>>
      ]_vars

\* add_task has raised on a full queue.
C26_Witness ==
    /\ ret = Returned("add_task", 0, "ValueError", 0)
    /\ Len(queue) = max_queue_size
    /\ \A i \in 1..Len(queue) : tasks[queue[i]].status = "PENDING"

\* C27: a write-back of download_progress or of size changes that field of
\* the record only: the state and the state_message another writer stored
\* are still there after it, also when the other writer's update came
\* between the read and the write of the call.
C27_PartialMerge ==
    [][\A w \in Writers :
          (upd[w].pc = "got" /\ upd'[w].pc = "idle"
             /\ upd[w].call \in {"progress", "size"})
          => /\ rec'.state = rec.state
             /\ rec'.state_message = rec.state_message
             /\ upd[w].call = "progress" => rec'.size = rec.size
             /\ upd[w].call = "size"
                => rec'.download_progress = rec.download_progress
      ]_vars

\* C28: a failure to remove files during the handling of a deletion is logged
\* and swallowed: no exception leaves _handle_deletion.
C28_CleanupFailureSwallowed ==
    \A e \in Execs : hd[e] # "raised"

\* C29: the completion handler of an execution retires the entry of that
\* execution only: the entry another execution of the same id has in the
\* active-task table is still there after it.
C29_CompletionRetiresOwnEntry ==
    [][\A e \in Execs :
          (cc[e] = "waiting" /\ cc'[e] = "done")
          => \A id \in DOMAIN active :
                active[id] # e => (id \in DOMAIN active' /\ active'[id] = active[id])
      ]_vars

\* C30: at most one task is with a worker thread (handed to it and not yet
\* finished), also with two worker threads, and _current_task is None
\* exactly when none is; the queue holds the tasks in the order of add_task;
\* no task is in the history twice.
C30_OneAtATimeOnceInHistory ==
    /\ Cardinality({w \in Threads : thread[w].task # 0}) <= 1
    /\ current = 0 <=> \A w \in Threads : thread[w].task = 0
    /\ \A i, j \in 1..Len(queue) : i < j => queue[i] < queue[j]
    /\ \A t \in TaskIds :
          Cardinality({i \in 1..Len(history) : history[i] = t}) <= 1

====
